---- MODULE Spec2Model ----
(***************************************************************************)
(* A model of app.py, the Streamlit brain-tumour detection page.           *)
(*                                                                         *)
(*   SpecVideo  the calls of extract_frame_from_video (temp file, capture  *)
(*              handle, clamping, returned tuple)                          *)
(*   Spec       the script runs of main() with the model file in place:    *)
(*              the three selection buttons, the analysis block over every *)
(*              raw detector output, the result panel                      *)
(*   SpecLoader the script runs of main() while model files come and go    *)
(*              and the path is edited: load_model under its cache         *)
(*                                                                         *)
(* Python's None is the empty tuple << >> and a present value x is <<x>>,  *)
(* so that "if error:" (truthiness) and "is None" stay different tests.    *)
(***************************************************************************)
EXTENDS Integers, Sequences, FiniteSets, TLC

VARIABLES tmpFiles, openCaps, call,
          session_state, cache, loads, model_path, ULTRALYTICS_AVAILABLE,
          modelFiles, pc, run, panel

videoVars == <<tmpFiles, openCaps, call>>
appVars == <<session_state, cache, loads, model_path, ULTRALYTICS_AVAILABLE,
             modelFiles, pc, run, panel>>
vars == <<tmpFiles, openCaps, call, session_state, cache, loads, model_path,
          ULTRALYTICS_AVAILABLE, modelFiles, pc, run, panel>>

None == << >>

Some(x) == <<x>>

\* Python truthiness of an Optional[str]: None and "" are both falsy.
Truthy(s) == s # None /\ s[1] # ""

(***************************************************************************)
(* Bounds                                                                  *)
(***************************************************************************)
\* largest frame count a video reports
MaxFrames == 3

\* number of temporary file names the disk can hold at once
MaxTmp == 2

\* largest number of boxes one inference returns
MaxBoxes == 2

\* executions of the body of load_model that are counted per path
MaxLoads == 2

(***************************************************************************)
(* extract_frame_from_video                                                *)
(***************************************************************************)
\* video_path = "" of line 85; temporary files are named 1..MaxTmp
EmptyPath == 0

TmpNames == 1..MaxTmp

\* the statements of the function that can raise
RaiseSteps == {"mktemp", "write", "capture", "get", "set", "read", "cvt"}

\* an uploaded video: whether OpenCV can open it and the frame count it reports
Videos == [opened : BOOLEAN, count : 0..MaxFrames]

\* what happens during one call: the statement that raises, if any, and
\* whether cap.read() returns a frame
Incidents == [raise : RaiseSteps \cup {"none"}, ret : BOOLEAN]

\* the environment of one call
CallEnv(video, incident) ==
  [raise |-> incident.raise, opened |-> video.opened, count |-> video.count,
   ret |-> incident.ret]

FrameNumbers == (-2)..(MaxFrames + 1)

Min(a, b) == IF a < b THEN a ELSE b

\* tempfile.NamedTemporaryFile picks a name that is not in use
FreshName(used) ==
  CHOOSE n \in TmpNames \ used : \A m \in TmpNames \ used : n <= m

VideoImage(pos) == [src |-> "video", frame |-> pos]

\* the value of one finished call: the disk, the open captures, the locals
\* the call bound and the tuple it returned
Outcome(files, caps, created, total, sought, exit, image, n, error) ==
  [files |-> files, caps |-> caps, created |-> created, total_frames |-> total,
   sought |-> sought, exit |-> exit,
   ret |-> [image |-> image, total_frames |-> n, error |-> error]]

\* lines 115-119: the handler unlinks video_path when it is set and exists,
\* releases nothing and returns 0 frames
ExceptHandler(files, caps, created, video_path, total, sought, step) ==
  Outcome(IF video_path # EmptyPath /\ video_path \in files
            THEN files \ {video_path} ELSE files,
          caps, created, total, sought, "exception",
          None, 0, Some("Error saat memproses video: " \o step))

\* the position handed to cap.set on line 103
Clamp(frame_number, total_frames) == Min(frame_number, total_frames - 1)

extract_frame_from_video(files, caps, frame_number, env) ==
  IF env.raise = "mktemp"
  THEN ExceptHandler(files, caps, None, EmptyPath, None, None, "mktemp")
  ELSE
  LET tmp == FreshName(files \cup caps)
      files1 == files \cup {tmp}
  IN
  IF env.raise = "write"
  THEN ExceptHandler(files1, caps, Some(tmp), EmptyPath, None, None, "write")
  ELSE
  LET video_path == tmp IN
  IF env.raise = "capture"
  THEN ExceptHandler(files1, caps, Some(tmp), video_path, None, None, "capture")
  ELSE
  IF ~env.opened
  THEN Outcome(files1 \ {video_path}, caps, Some(tmp), None, None, "notopened",
               None, 0, Some("Gagal membuka file video."))
  ELSE
  LET caps1 == caps \cup {video_path} IN
  IF env.raise = "get"
  THEN ExceptHandler(files1, caps1, Some(tmp), video_path, None, None, "get")
  ELSE
  LET total_frames == env.count IN
  IF total_frames = 0
  THEN Outcome(files1 \ {video_path}, caps1 \ {video_path}, Some(tmp),
               Some(total_frames), None, "zero",
               None, 0, Some("Video tidak memiliki frame."))
  ELSE
  LET pos == Clamp(frame_number, total_frames) IN
  IF env.raise = "set"
  THEN ExceptHandler(files1, caps1, Some(tmp), video_path,
                     Some(total_frames), Some(pos), "set")
  ELSE
  IF env.raise = "read"
  THEN ExceptHandler(files1, caps1, Some(tmp), video_path,
                     Some(total_frames), Some(pos), "read")
  ELSE
  LET caps2 == caps1 \ {video_path}
      files2 == files1 \ {video_path}
  IN
  IF env.ret
  THEN IF env.raise = "cvt"
       THEN ExceptHandler(files2, caps2, Some(tmp), video_path,
                          Some(total_frames), Some(pos), "cvt")
       ELSE Outcome(files2, caps2, Some(tmp), Some(total_frames), Some(pos),
                    "success", Some(VideoImage(pos)), total_frames, None)
  ELSE Outcome(files2, caps2, Some(tmp), Some(total_frames), Some(pos),
               "readfail", None, total_frames,
               Some("Gagal mengekstrak frame yang dipilih."))

NoCall == [frame_number |-> 0, created |-> None, total_frames |-> None,
           sought |-> None, exit |-> "none",
           ret |-> [image |-> None, total_frames |-> 0, error |-> None]]

CallRecord(frame_number, o) ==
  [frame_number |-> frame_number, created |-> o.created,
   total_frames |-> o.total_frames, sought |-> o.sought, exit |-> o.exit,
   ret |-> o.ret]

(***************************************************************************)
(* st.session_state: a dictionary, here a function whose domain is the set *)
(* of keys present                                                         *)
(***************************************************************************)
Has(ss, key) == key \in DOMAIN ss

Del(ss, key) == [k \in DOMAIN ss \ {key} |-> ss[k]]

Put(ss, key, value) ==
  [k \in DOMAIN ss \cup {key} |-> IF k = key THEN value ELSE ss[k]]

RECURSIVE DelAll(_, _)
DelAll(ss, keys) ==
  IF keys = << >> THEN ss
  ELSE DelAll(IF Has(ss, Head(keys)) THEN Del(ss, Head(keys)) ELSE ss, Tail(keys))

clear_results_keeping_result(ss) == DelAll(ss, <<"detections", "selected_image">>)

\* lines 125-129
clear_results(ss) == DelAll(ss, <<"result_image", "detections", "selected_image">>)

(***************************************************************************)
(* load_model under st.cache_resource                                      *)
(***************************************************************************)
Paths == {"best.pt", "other.pt"}

\* what YOLO(model_path) does: returns a model, or raises an exception e
\* whose str(e) is msg; str(MemoryError()) and str(AssertionError()) are ""
YoloOutcomes == {[raises |-> FALSE, msg |-> ""],
                 [raises |-> TRUE, msg |-> "invalid checkpoint"],
                 [raises |-> TRUE, msg |-> ""]}

Model(path) == [weights |-> path]

\* lines 51-60, the undecorated function: a pair (model, error)
load_model_body(path, available, files, yolo) ==
  IF ~available
  THEN <<None, Some("Library 'ultralytics' tidak tersedia.")>>
  ELSE IF path \notin files
  THEN <<None, Some("File model tidak ditemukan: " \o path)>>
  ELSE IF yolo.raises
  THEN <<None, Some(yolo.msg)>>
  ELSE <<Some(Model(path)), None>>

NotCached == [p \in Paths |-> None]

\* the function with the decorator left out: every call runs the body
load_model_uncached(memo, count, path, available, files, yolo) ==
  LET value == load_model_body(path, available, files, yolo) IN
  [value |-> value, hit |-> FALSE,
   memo |-> [memo EXCEPT ![path] = Some(value)],
   count |-> [count EXCEPT ![path] = Min(@ + 1, MaxLoads)]]

\* line 49: st.cache_resource keys the stored return value by the argument
load_model(memo, count, path, available, files, yolo) ==
  IF memo[path] # None
  THEN [value |-> memo[path][1], hit |-> TRUE, memo |-> memo, count |-> count]
  ELSE LET value == load_model_body(path, available, files, yolo) IN
       [value |-> value, hit |-> FALSE,
        memo |-> [memo EXCEPT ![path] = Some(value)],
        count |-> [count EXCEPT ![path] = Min(@ + 1, MaxLoads)]]

(***************************************************************************)
(* The detector's raw output and the detection records of lines 217-223    *)
(***************************************************************************)
class_names == <<"Glioma", "Meningioma", "No Tumor", "Pituitary">>

\* int(box.cls[0]) and float(box.conf[0]) (in percent) of one box
ClassIds == {-5, -1, 1, 7}

Confidences == {30, 90}

Boxes == [cls : ClassIds, conf : Confidences]

RawResults == UNION {[1..n -> Boxes] : n \in 0..MaxBoxes}

\* str(class_id) inside the f-string of line 221
IntStr(i) ==
  IF i < 0 THEN "-" \o <<"0", "1", "2", "3", "4", "5", "6", "7", "8", "9">>[(-i) + 1]
  ELSE <<"0", "1", "2", "3", "4", "5", "6", "7", "8", "9">>[i + 1]

\* Python's list[i]: negative i counts from the end, anything outside
\* -len..len-1 raises IndexError (None here)
PyIndex(list, i) ==
  IF 0 <= i /\ i < Len(list) THEN Some(list[i + 1])
  ELSE IF -Len(list) <= i /\ i < 0 THEN Some(list[Len(list) + i + 1])
  ELSE None

\* line 221; None when the expression raises
ClassName(class_id) ==
  IF class_id < Len(class_names) THEN PyIndex(class_names, class_id)
  ELSE Some("Unknown (" \o IntStr(class_id) \o ")")

\* lines 217-222: the list built so far, and whether a box raised
RECURSIVE BuildDetections(_, _)
BuildDetections(boxes, detections) ==
  IF boxes = << >> THEN [raised |-> FALSE, detections |-> detections]
  ELSE LET class_name == ClassName(Head(boxes).cls) IN
       IF class_name = None
       THEN [raised |-> TRUE, detections |-> detections]
       ELSE BuildDetections(Tail(boxes),
              Append(detections, [class |-> class_name[1],
                                  confidence |-> Head(boxes).conf]))

(***************************************************************************)
(* sorted(detections, key=confidence, reverse=True) of line 234            *)
(***************************************************************************)
\* d goes behind every record that is at least as confident
RECURSIVE InsertDesc(_, _)
InsertDesc(sorted, d) ==
  IF sorted = << >> THEN <<d>>
  ELSE IF Head(sorted).confidence >= d.confidence
       THEN <<Head(sorted)>> \o InsertDesc(Tail(sorted), d)
       ELSE <<d>> \o sorted

RECURSIVE SortDesc(_, _)
SortDesc(rest, sorted) ==
  IF rest = << >> THEN sorted
  ELSE SortDesc(Tail(rest), InsertDesc(sorted, Head(rest)))

Reverse(s) == [i \in 1..Len(s) |-> s[Len(s) + 1 - i]]

\* sorted(detections, key=confidence)[::-1]: an ascending sort read
\* backwards, so equal confidences come out in reverse input order
sorted_by_confidence_reversed(detections) == SortDesc(Reverse(detections), << >>)

\* Python's sort is stable, also under reverse=True
sorted_by_confidence(detections) == SortDesc(detections, << >>)

get_prediction_style(class_name) ==
  IF class_name = "Glioma" THEN "glioma"
  ELSE IF class_name = "Meningioma" THEN "meningioma"
  ELSE IF class_name = "Pituitary" THEN "pituitary"
  ELSE "no-tumor"

\* lines 228-246: what the result column renders
ResultPanel(ss) ==
  IF Has(ss, "result_image")
  THEN LET detections == IF Has(ss, "detections") THEN ss["detections"] ELSE << >> IN
       IF detections # << >>
       THEN LET detections_sorted == sorted_by_confidence(detections) IN
            [image |-> Some(ss["result_image"]), message |-> "found",
             found |-> Len(detections),
             boxes |-> [i \in 1..Len(detections_sorted) |->
                          [style |-> get_prediction_style(detections_sorted[i].class),
                           class |-> detections_sorted[i].class,
                           confidence |-> detections_sorted[i].confidence]],
             consult |-> \E i \in 1..Len(detections) : detections[i].class # "No Tumor"]
       ELSE [image |-> Some(ss["result_image"]), message |-> "no tumor",
             found |-> 0, boxes |-> << >>, consult |-> FALSE]
  ELSE [image |-> None, message |-> "placeholder", found |-> 0,
        boxes |-> << >>, consult |-> FALSE]

\* nothing rendered in the result column: before the first run ("blank")
\* or when a run stopped on an uncaught exception ("exception")
NoPanel(why) == [image |-> None, message |-> why, found |-> 0,
                 boxes |-> << >>, consult |-> FALSE]

(***************************************************************************)
(* main(): one script run is the input section (a button handler or none), *)
(* the analysis block of lines 206-224 and the result column               *)
(***************************************************************************)
Image(src) == [src |-> src, frame |-> 0]

\* Image.open(uploaded_file) of line 164
UploadImages == {Image("upload")}

\* the sample files of line 65 that exist in the working directory
ExampleTypes == {"Glioma", "No Tumor"}

\* result.plot() converted to RGB: the selected image with the boxes drawn
Plot(image, raw) == [of |-> image, drawn |-> Len(raw)]

\* the locals of the current script run; call is the last call of
\* extract_frame_from_video the run made
NewRun == [clicked |-> "none", loaded |-> None, hit |-> FALSE, called |-> FALSE,
           input |-> None, boxes |-> None, raised |-> "none"]

InitVideo ==
  /\ tmpFiles = {}
  /\ openCaps = {}
  /\ call = NoCall

InitSession ==
  /\ session_state = << >>
  /\ cache = NotCached
  /\ loads = [p \in Paths |-> 0]
  /\ model_path = "best.pt"
  /\ pc = "analysis"
  /\ run = NewRun
  /\ panel = NoPanel("blank")

Init ==
  /\ InitVideo
  /\ InitSession
  /\ ULTRALYTICS_AVAILABLE \in BOOLEAN
  /\ modelFiles = {"best.pt"}

\* a button handler: lines 167-168, 183-184, 201-202
Select(kind, image) ==
  /\ session_state' = Put(clear_results(session_state), "selected_image", image)
  /\ run' = [NewRun EXCEPT !.clicked = kind]
  /\ pc' = "analysis"
  /\ panel' = NoPanel("blank")
  /\ UNCHANGED <<cache, loads, model_path, ULTRALYTICS_AVAILABLE, modelFiles>>

\* lines 162-168
ClickAnalyzeUpload ==
  /\ pc = "wait"
  /\ \E image \in UploadImages : Select("upload", image)
  /\ UNCHANGED <<tmpFiles, openCaps>>
  /\ call' = NoCall

\* lines 172-184
ClickUseExample ==
  /\ pc = "wait"
  /\ \E tumor_type \in ExampleTypes : Select("example", Image(tumor_type))
  /\ UNCHANGED <<tmpFiles, openCaps>>
  /\ call' = NoCall

\* lines 187-202: the button exists only when the first extraction reported
\* no error and frames, and the second returned an image
ClickAnalyzeVideo ==
  /\ pc = "wait"
  /\ TmpNames \ (tmpFiles \cup openCaps) # {}
  /\ \E uploaded_video \in Videos, incident1 \in Incidents :
       LET first == extract_frame_from_video(tmpFiles, openCaps, 0,
                                             CallEnv(uploaded_video, incident1)) IN
       /\ ~Truthy(first.ret.error)
       /\ first.ret.total_frames > 0
       /\ TmpNames \ (first.files \cup first.caps) # {}
       /\ \E frame_number \in 0..(first.ret.total_frames - 1), incident2 \in Incidents :
            LET second == extract_frame_from_video(first.files, first.caps, frame_number,
                                                   CallEnv(uploaded_video, incident2)) IN
            /\ second.ret.image # None
            /\ tmpFiles' = second.files
            /\ openCaps' = second.caps
            /\ call' = CallRecord(frame_number, second)
            /\ Select("video", second.ret.image[1])

\* any other widget interaction reruns the script; line 135 reads the path
Rerun ==
  /\ pc = "wait"
  /\ \E path \in Paths : model_path' = path
  /\ run' = NewRun
  /\ pc' = "analysis"
  /\ panel' = NoPanel("blank")
  /\ call' = NoCall
  /\ UNCHANGED <<session_state, cache, loads, ULTRALYTICS_AVAILABLE, modelFiles>>
  /\ UNCHANGED <<tmpFiles, openCaps>>

\* line 224: st.rerun() starts the script again, with no button pressed
StRerun ==
  /\ pc = "rerun"
  /\ run' = NewRun
  /\ pc' = "analysis"
  /\ panel' = NoPanel("blank")
  /\ call' = NoCall
  /\ UNCHANGED <<session_state, cache, loads, model_path, ULTRALYTICS_AVAILABLE,
                 modelFiles>>
  /\ UNCHANGED <<tmpFiles, openCaps>>

\* a model file appears in or disappears from the working directory
\* between two runs (what os.path.exists of line 55 reads)
ModelFileChange ==
  /\ pc = "wait"
  /\ \E p \in Paths :
       modelFiles' = IF p \in modelFiles THEN modelFiles \ {p} ELSE modelFiles \cup {p}
  /\ UNCHANGED <<session_state, cache, loads, model_path, ULTRALYTICS_AVAILABLE,
                 pc, run, panel>>
  /\ UNCHANGED videoVars

\* lines 206-224; Raws is what the detector may return
Analysis(Raws) ==
  /\ pc = "analysis"
  /\ IF Has(session_state, "selected_image") /\ ~Has(session_state, "result_image")
     THEN \E yolo \in YoloOutcomes :
       LET lm == load_model(cache, loads, model_path, ULTRALYTICS_AVAILABLE,
                            modelFiles, yolo)
           model == lm.value[1]
           model_error == lm.value[2]
           loaded == [run EXCEPT !.loaded = Some(lm.value), !.hit = lm.hit]
           image == session_state["selected_image"]
       IN
       /\ cache' = lm.memo
       /\ loads' = lm.count
       /\ IF Truthy(model_error)
          THEN /\ run' = loaded
               /\ pc' = "display"
               /\ UNCHANGED <<session_state, panel>>
          ELSE IF model = None
          THEN \* line 212 calls None: TypeError ends the run
               /\ run' = [loaded EXCEPT !.called = TRUE, !.input = Some(image),
                                        !.raised = "TypeError"]
               /\ pc' = "wait"
               /\ panel' = NoPanel("exception")
               /\ UNCHANGED session_state
          ELSE \E raw \in Raws :
               LET stored == Put(session_state, "result_image", Plot(image, raw))
                   built == BuildDetections(raw, << >>)
                   inferred == [loaded EXCEPT !.called = TRUE, !.input = Some(image),
                                              !.boxes = Some(raw)]
               IN
               IF built.raised
               THEN \* line 221 raised IndexError after line 215 stored the image
                    /\ session_state' = stored
                    /\ run' = [inferred EXCEPT !.raised = "IndexError"]
                    /\ pc' = "wait"
                    /\ panel' = NoPanel("exception")
               ELSE /\ session_state' = Put(stored, "detections", built.detections)
                    /\ run' = inferred
                    /\ pc' = "rerun"
                    /\ UNCHANGED panel
     ELSE /\ pc' = "display"
          /\ UNCHANGED <<session_state, cache, loads, run, panel>>
  /\ UNCHANGED <<model_path, ULTRALYTICS_AVAILABLE, modelFiles>>
  /\ UNCHANGED videoVars

\* lines 226-246
Display ==
  /\ pc = "display"
  /\ panel' = ResultPanel(session_state)
  /\ pc' = "wait"
  /\ UNCHANGED <<session_state, cache, loads, model_path, ULTRALYTICS_AVAILABLE,
                 modelFiles, run>>
  /\ UNCHANGED videoVars

Next ==
  \/ ClickAnalyzeUpload
  \/ ClickUseExample
  \/ ClickAnalyzeVideo
  \/ Rerun
  \/ StRerun
  \/ Analysis(RawResults)
  \/ Display

Spec == Init /\ [][Next]_vars

(***************************************************************************)
(* The runs of main() in a changing environment, one fixed detector output *)
(***************************************************************************)
LoaderRaws == {<< >>, <<[cls |-> 1, conf |-> 90]>>}

InitLoader ==
  /\ InitVideo
  /\ InitSession
  /\ ULTRALYTICS_AVAILABLE \in BOOLEAN
  /\ modelFiles \in SUBSET Paths

NextLoader ==
  \/ ClickAnalyzeUpload
  \/ Rerun
  \/ StRerun
  \/ ModelFileChange
  \/ Analysis(LoaderRaws)
  \/ Display

SpecLoader == InitLoader /\ [][NextLoader]_vars

(***************************************************************************)
(* The calls of extract_frame_from_video on their own                      *)
(***************************************************************************)
InitCalls ==
  /\ InitVideo
  /\ InitSession
  /\ ULTRALYTICS_AVAILABLE = TRUE
  /\ modelFiles = {"best.pt"}

\* one call of extract_frame_from_video, from entry to return
ExtractFrame ==
  /\ TmpNames \ (tmpFiles \cup openCaps) # {}
  /\ \E frame_number \in FrameNumbers, video \in Videos, incident \in Incidents :
       LET o == extract_frame_from_video(tmpFiles, openCaps, frame_number,
                                         CallEnv(video, incident)) IN
       /\ tmpFiles' = o.files
       /\ openCaps' = o.caps
       /\ call' = CallRecord(frame_number, o)
  /\ UNCHANGED appVars

NextVideo == ExtractFrame

SpecVideo == InitCalls /\ [][NextVideo]_vars

(***************************************************************************)
(* Properties of extract_frame_from_video, under SpecVideo                 *)
(***************************************************************************)
\* C1: when a call of extract_frame_from_video has returned, on whatever
\* exit path, the temporary file that call created no longer exists.
C1_TempFileRemoved ==
  call.created # None => call.created[1] \notin tmpFiles

\* C2: on a video with total_frames > 0 the position handed to the seek lies
\* in [0, total_frames - 1] for every requested index; an index in range is
\* sought unchanged and an index >= total_frames seeks total_frames - 1.
C2_SoughtClamped ==
  (call.sought # None /\ call.total_frames # None /\ call.total_frames[1] > 0) =>
    LET total == call.total_frames[1]
        pos == call.sought[1]
    IN /\ pos \in 0..(total - 1)
       /\ call.frame_number \in 0..(total - 1) => pos = call.frame_number
       /\ call.frame_number >= total => pos = total - 1

\* C7: when a call of extract_frame_from_video has returned, on whatever
\* exit path, the capture it opened on its temporary file has been released.
C7_CaptureReleased ==
  call.created # None => call.created[1] \notin openCaps

\* C8: a call that determined a non-zero frame count and failed afterwards
\* (no frame read, or seek, read or conversion raised) returns that frame
\* count next to the failure, not 0.
C8_TotalWithFailure ==
  (call.total_frames # None /\ call.total_frames[1] # 0 /\ call.ret.error # None) =>
    call.ret.total_frames = call.total_frames[1]

(***************************************************************************)
(* Properties of the analysis block and the result panel, under Spec       *)
(***************************************************************************)
\* the label the specification assigns to a class index
ExpectedLabel(class_id) ==
  IF class_id \in 0..3 THEN class_names[class_id + 1]
  ELSE "Unknown (" \o IntStr(class_id) \o ")"

\* C3: every raw detection of one inference gets the label class_names[index]
\* for an index in 0..3 and "Unknown (<index>)" for any other index, negative
\* ones included; no index raises or makes the rest of the batch fail.
C3_Labels ==
  run.boxes # None =>
    /\ run.raised = "none"
    /\ Has(session_state, "detections")
    /\ Len(session_state["detections"]) = Len(run.boxes[1])
    /\ \A i \in 1..Len(run.boxes[1]) :
         session_state["detections"][i].class = ExpectedLabel(run.boxes[1][i].cls)

Injections(n) == {f \in [1..n -> 1..n] : \A i, j \in 1..n : f[i] = f[j] => i = j}

\* C4: the records enumerated for display are a permutation of the stored
\* detections, in non-increasing order of confidence, and records of equal
\* confidence keep the order in which the detector produced them.
C4_DisplayOrder ==
  panel.message = "found" =>
    LET stored == session_state["detections"]
        shown == panel.boxes
    IN /\ Len(shown) = Len(stored)
       /\ \A i \in 1..(Len(shown) - 1) : shown[i].confidence >= shown[i + 1].confidence
       /\ \E from \in Injections(Len(stored)) :
            /\ \A i \in 1..Len(shown) :
                 /\ shown[i].class = stored[from[i]].class
                 /\ shown[i].confidence = stored[from[i]].confidence
            /\ \A i, j \in 1..Len(shown) :
                 (i < j /\ shown[i].confidence = shown[j].confidence) => from[i] < from[j]

\* the panel shows two records that the sort had to swap
C4_Witness ==
  /\ panel.message = "found"
  /\ Len(panel.boxes) = 2
  /\ session_state["detections"][1].confidence < session_state["detections"][2].confidence
  /\ panel.boxes[1].confidence > panel.boxes[2].confidence

\* C9: a stored result always belongs to the image now selected; a selection
\* leaves no result_image and no detections next to the new selected_image;
\* inference runs only with selected_image present and result_image absent,
\* and on that image.
C9_ResultOfSelected ==
  /\ [](Has(session_state, "result_image") =>
          /\ Has(session_state, "selected_image")
          /\ session_state["result_image"].of = session_state["selected_image"])
  /\ [][(pc = "wait" /\ run'.clicked # "none") =>
          /\ Has(session_state', "selected_image")
          /\ ~Has(session_state', "result_image")
          /\ ~Has(session_state', "detections")]_vars
  /\ [][(pc = "analysis" /\ run'.called) =>
          /\ Has(session_state, "selected_image")
          /\ ~Has(session_state, "result_image")
          /\ run'.input = Some(session_state["selected_image"])]_vars

\* a run started by "Use Glioma" has stored its result
C9_Witness ==
  /\ pc = "rerun"
  /\ run.clicked = "example"
  /\ Has(session_state, "result_image")
  /\ session_state["selected_image"] = Image("Glioma")
  /\ session_state["result_image"].of = Image("Glioma")

\* C10: result_image is in the session state exactly when detections is.
C10_ImageIffDetections ==
  Has(session_state, "result_image") <=> Has(session_state, "detections")

(***************************************************************************)
(* Properties of load_model, under SpecLoader                              *)
(***************************************************************************)
\* C5: the body of load_model runs at most once per distinct path; once a
\* path has a stored result, success or error, that result never changes, no
\* further load is made for it, and it is what every call returns.
C5_LoadOnce ==
  /\ [](\A p \in Paths : loads[p] <= 1 /\ (loads[p] = 0 <=> cache[p] = None))
  /\ [](run.loaded # None => cache[model_path] = run.loaded)
  /\ [][\A p \in Paths : cache[p] # None =>
          cache'[p] = cache[p] /\ loads'[p] = loads[p]]_vars

\* a call is answered from the cache with the error of the first load,
\* although by now the library and the file are both there
C5_Witness ==
  /\ run.hit
  /\ run.loaded # None
  /\ run.loaded[1][2] # None
  /\ ULTRALYTICS_AVAILABLE
  /\ model_path \in modelFiles
  /\ loads[model_path] = 1

\* C6: load_model returns (model, None) or (None, non-empty message), never a
\* model together with an error; a path that does not exist yields the
\* model-not-found message (the library being there); main calls the model
\* only when the returned error is absent.
C6_ModelOrMessage ==
  run.loaded # None =>
    LET model == run.loaded[1][1]
        model_error == run.loaded[1][2]
    IN /\ \/ model # None /\ model_error = None
          \/ model = None /\ model_error # None /\ model_error[1] # ""
       /\ (pc = "display" /\ ~run.hit /\ ULTRALYTICS_AVAILABLE
             /\ model_path \notin modelFiles) =>
            model_error = Some("File model tidak ditemukan: " \o model_path)
       /\ run.called => model_error = None

====
